---- MODULE Spec2Model ----
(***************************************************************************)
(* A model of SlyYTDAPI (src/src/SlyYTDAPI/ytdapi.py): the query builders  *)
(* of YouTubeData, the chunked channel lookup, the entity mappers Video    *)
(* and Channel, and Channel.update.  The transport's paginated(path,       *)
(* params, limit) belongs to the SlyAPI library; it is modelled here as a  *)
(* cursor-driven page walker after section 4.1 of the specification.       *)
(***************************************************************************)
EXTENDS Integers, Sequences, FiniteSets, TLC

VARIABLES
    pc,        \* "idle" | "chunks" | "paging" | "done" | "raised" | "mapped" | "updated"
    call,      \* the call in progress: its name and arguments
    queries,   \* every (path, params, limit) handed to self.paginated, in order
    pag,       \* the running paginator: its query, result count, offset
    chunks,    \* channels_chunks50 not yet visited by page_chunks
    yielded,   \* the items the caller has received so far
    fetches,   \* HTTP round trips made by the transport
    remote,    \* the remote service: what it holds
    error,     \* the exception the call raised, "none" if none
    entity     \* the object a mapper built (its __dict__), or the Channel being refreshed

vars == <<pc, call, queries, pag, chunks, yielded, fetches, remote, error, entity>>

----------------------------------------------------------------------------
(* Bounds of the model *)

MaxIds == 101           \* longest list of distinct IDs handed to a lookup
MaxDup == 2             \* repeated IDs appended to a list
MaxTotal == 3           \* small result-set sizes of the list endpoints
MaxLimit == 2           \* small item limits
DefaultPageSize == 5    \* the remote's page size when maxResults is not sent
MaxVersion == 3         \* revisions of a channel's data at the remote

(* Program constants *)

ChunkSize == 50         \* channel_ids[i: i + 50]
PageCap == 50           \* min(50, limit)
CommentPageCap == 100   \* min(100, limit)

----------------------------------------------------------------------------
(* Python values *)

None == <<>>
Some(v) == <<v>>
Val(o) == o[1]

Min(a, b) == IF a < b THEN a ELSE b

Range(s) == {s[i] : i \in DOMAIN s}

\* bool(x) of a list | None
BoolOfList(o) == o # None /\ Val(o) # <<>>

\* bool(x) of an int | None
BoolOfInt(o) == o # None /\ Val(o) # 0

Id(i) == "UC" \o ToString(i)

\* ','.join(ids)
CommaJoin(ids) ==
    IF ids = <<>> THEN <<>>
    ELSE [i \in 1..(2 * Len(ids) - 1) |-> IF i % 2 = 1 THEN ids[(i + 1) \div 2] ELSE ","]

\* the IDs a comma-joined 'id' parameter names, as the remote reads them
SplitComma(str) ==
    IF str = <<>> THEN <<>>
    ELSE [k \in 1..((Len(str) + 1) \div 2) |-> str[2 * k - 1]]

RECURSIVE DedupAcc(_, _, _)
DedupAcc(ids, i, acc) ==
    IF i > Len(ids) THEN acc
    ELSE IF ids[i] \in Range(acc) THEN DedupAcc(ids, i + 1, acc)
    ELSE DedupAcc(ids, i + 1, Append(acc, ids[i]))

Reverse(s) == [i \in 1..Len(s) |-> s[Len(s) + 1 - i]]

\* the iteration orders of a Python set the model tries
SetOrders == {"first", "last"}

\* list(channel_ids) without the set(): what a lookup that forgets to deduplicate does
ListOfSetKeepDup(ids, order) ==
    IF order = "first" THEN ids ELSE Reverse(ids)

\* list(set(channel_ids)): the distinct IDs, in an order the set decides
ListOfSet(ids, order) ==
    IF order = "first" THEN DedupAcc(ids, 1, <<>>)
    ELSE Reverse(DedupAcc(ids, 1, <<>>))

\* [channel_ids[i: i + 50] for i in range(0, len(channel_ids), 50)]
ChunksOf(ids) ==
    [k \in 1..((Len(ids) + ChunkSize - 1) \div ChunkSize) |->
        SubSeq(ids, (k - 1) * ChunkSize + 1, Min(k * ChunkSize, Len(ids)))]

----------------------------------------------------------------------------
(* Inputs *)

IdCounts == (0..2) \cup ((ChunkSize - 1)..(ChunkSize + 1)) \cup ((2 * ChunkSize)..MaxIds)

\* n distinct IDs followed by the first d of them again
IdList(n, d) ==
    IF n = 0 THEN <<>>
    ELSE [i \in 1..(n + d) |-> Id(((i - 1) % n) + 1)]

IdLists == {IdList(n, d) : n \in IdCounts, d \in 0..MaxDup}

Limits == {None} \cup {Some(l) : l \in (1..MaxLimit) \cup {PageCap + MaxLimit}}

Totals == (0..MaxTotal) \cup {PageCap + 1, 2 * PageCap + 1}

\* missing: channel IDs that do not resolve; mine: the authenticated caller's
\* channel; total: items a list endpoint holds; version: the revision of the
\* channels' data
Remotes ==
    {[missing |-> m, mine |-> <<"UCmine">>, total |-> t, version |-> 1] :
        m \in {{}, {Id(2)}}, t \in {MaxTotal}}
    \cup {[missing |-> {}, mine |-> <<>>, total |-> t, version |-> 1] : t \in Totals}

----------------------------------------------------------------------------
(* The remote service and the transport's paginator *)

Items(n) == [i \in 1..n |-> Id(i)]

\* everything the remote holds for a query, in page order
RemoteResult(q) ==
    IF q.path \in {"/channels", "/videos"} /\ "id" \in DOMAIN q.params
    THEN SelectSeq(SplitComma(Val(q.params.id)), LAMBDA c : c \notin remote.missing)
    ELSE IF q.path = "/channels" THEN remote.mine
    ELSE Items(remote.total)

PageSize(q) ==
    IF "maxResults" \in DOMAIN q.params /\ q.params.maxResults # None
    THEN Val(q.params.maxResults)
    ELSE DefaultPageSize

NoPag == [qi |-> 0, count |-> 0, off |-> 0]

\* self.paginated(path, params, limit): creates the lazy sequence, fetches nothing
Paginated(path, params, limit) == [path |-> path, params |-> params, limit |-> limit]

\* the items of one page the paginator passes on: all of them, or as many as the limit leaves
Deliver(page, limit, count) ==
    IF limit = None THEN page
    ELSE SubSeq(page, 1, Min(Len(page), Val(limit) - count))

\* one round trip: the page at the cursor, its items yielded up to the limit
FetchPage ==
    /\ pc = "paging"
    /\ LET q     == queries[pag.qi]
           all   == RemoteResult(q)
           page  == SubSeq(all, pag.off + 1, Min(pag.off + PageSize(q), Len(all)))
           out   == Deliver(page, q.limit, pag.count)
           count == pag.count + Len(out)
           more  == pag.off + PageSize(q) < Len(all)     \* nextPageToken present
           stop  == \/ page = <<>>
                    \/ ~more
                    \/ (q.limit # None /\ count >= Val(q.limit))
       IN /\ fetches' = fetches + 1
          /\ yielded' = yielded \o out
          /\ pag' = [pag EXCEPT !.count = count, !.off = pag.off + Len(page)]
          /\ pc' = IF ~stop THEN "paging"
                   ELSE IF call.op = "_channels_list" /\ ~call.mine THEN "chunks"
                   ELSE "done"
    /\ UNCHANGED <<call, queries, chunks, remote, error, entity>>

----------------------------------------------------------------------------
(* YouTubeData._channels_list *)

\* a guard that rejects only the call that gives both
ChannelsGuardBoth(mine, channel_ids) == mine /\ BoolOfList(channel_ids)

\* mine==bool(channel_ids)
ChannelsGuard(mine, channel_ids) == mine = BoolOfList(channel_ids)

\* min(50, limit) if limit else None
MaxResults(cap, limit) == IF BoolOfInt(limit) THEN Some(Min(cap, Val(limit))) ELSE None

\* params = { 'part': parts, 'maxResults': maxResults }
ChannelsParams(parts, limit) ==
    [part |-> Some(parts), maxResults |-> MaxResults(PageCap, limit)]

channels_list(channel_ids, mine, parts, limit, order) ==
    /\ pc = "idle"
    /\ call' = [op |-> "_channels_list", channel_ids |-> channel_ids, mine |-> mine,
                parts |-> parts, limit |-> limit]
    /\ IF ChannelsGuard(mine, channel_ids)
       THEN /\ pc' = "raised"
            /\ error' = "ValueError"
            /\ UNCHANGED <<queries, pag, chunks>>
       ELSE LET params == ChannelsParams(parts, limit)
            IN IF BoolOfList(channel_ids)
               THEN /\ chunks' = ChunksOf(ListOfSet(Val(channel_ids), order))
                    /\ pc' = "chunks"
                    /\ UNCHANGED <<queries, pag, error>>
               ELSE /\ queries' = Append(queries,
                            Paginated("/channels", [mine |-> Some(TRUE)] @@ params, limit))
                    /\ pag' = [qi |-> Len(queries) + 1, count |-> 0, off |-> 0]
                    /\ pc' = "paging"
                    /\ UNCHANGED <<chunks, error>>
    /\ UNCHANGED <<yielded, fetches, remote, entity>>

\* page_chunks: for ids in channels_chunks50: ... self.paginated('/channels', p, limit)
page_chunks ==
    /\ pc = "chunks"
    /\ IF chunks = <<>>
       THEN /\ pc' = "done"
            /\ UNCHANGED <<queries, pag, chunks>>
       ELSE LET params == ChannelsParams(call.parts, call.limit)
                p      == [id |-> Some(CommaJoin(Head(chunks)))] @@ params
            IN /\ queries' = Append(queries, Paginated("/channels", p, call.limit))
               /\ pag' = [qi |-> Len(queries) + 1, count |-> 0, off |-> 0]
               /\ chunks' = Tail(chunks)
               /\ pc' = "paging"
    /\ UNCHANGED <<call, yielded, fetches, remote, error, entity>>

----------------------------------------------------------------------------
(* YouTubeData.videos *)

videos(video_ids, parts) ==
    /\ pc = "idle"
    /\ call' = [op |-> "videos", video_ids |-> video_ids, parts |-> parts, limit |-> None]
    /\ LET params == [part |-> Some(parts), id |-> Some(CommaJoin(video_ids))]
       IN /\ queries' = Append(queries, Paginated("/videos", params, None))
          /\ pag' = [qi |-> Len(queries) + 1, count |-> 0, off |-> 0]
    /\ pc' = "paging"
    /\ UNCHANGED <<chunks, yielded, fetches, remote, error, entity>>


----------------------------------------------------------------------------
(* datetime *)

Digits == {"0", "1", "2", "3", "4", "5", "6", "7", "8", "9"}

DigitVal(c) == CHOOSE d \in 0..9 : ToString(d) = c

IsDigits(str, from, to) == \A i \in from..to : i <= Len(str) /\ str[i] \in Digits

\* int() of the digits str[from..to]
RECURSIVE Num(_, _, _)
Num(str, from, to) ==
    IF to < from THEN 0
    ELSE 10 * Num(str, from, to - 1) + DigitVal(str[to])

\* int(g) of a string of digits
IntOf(str) == Num(str, 1, Len(str))

Pad2(n) == <<ToString((n \div 10) % 10), ToString(n % 10)>>

Pad4(n) == Pad2(n \div 100) \o Pad2(n % 100)

Pad6(n) == Pad2(n \div 10000) \o Pad4(n % 10000)

Abs(n) == IF n < 0 THEN 0 - n ELSE n

\* datetime.isoformat("T"): the local fields as they stand, the microseconds when
\* they are not zero, the UTC offset when the datetime is aware
isoformat(dt) ==
    Pad4(dt.year) \o <<"-">> \o Pad2(dt.month) \o <<"-">> \o Pad2(dt.day) \o <<"T">>
    \o Pad2(dt.hour) \o <<":">> \o Pad2(dt.minute) \o <<":">> \o Pad2(dt.second)
    \o (IF dt.microsecond # 0 THEN <<".">> \o Pad6(dt.microsecond) ELSE <<>>)
    \o (IF dt.tz = None THEN <<>>
        ELSE <<IF Val(dt.tz) < 0 THEN "-" ELSE "+">>
             \o Pad2(Abs(Val(dt.tz)) \div 60) \o <<":">> \o Pad2(Abs(Val(dt.tz)) % 60))

\* after.isoformat("T") + "Z" if after else None
DateParam(date) == IF date = None THEN None ELSE Some(isoformat(Val(date)) \o <<"Z">>)

\* the timestamps handed to search_videos: tz is the UTC offset in minutes, None when naive
Dates ==
    [ year : {2024}, month : {3}, day : {15}, hour : {23}, minute : {30},
      second : {59}, microsecond : {0, 500000},
      tz : {None, Some(0), Some(120), Some(0 - 300)} ]

DateRanges ==
    {<<None, None>>}
    \cup {<<Some(d), None>> : d \in Dates}
    \cup {<<None, Some(d)>> : d \in Dates}
    \cup {<<Some(d), Some(d)>> : d \in Dates}

----------------------------------------------------------------------------
(* YouTubeData.search_videos, get_playlist_videos, comments *)

\* a dict without the keys whose value is None
OmitNone(d) == [k \in {x \in DOMAIN d : d[x] # None} |-> d[k]]

\* a builder that drops the filters left at None
SearchParamsOmitNone(query, channel_id, after, before, mine, order, safeSearch, parts, limit) ==
    OmitNone([ part            |-> Some(parts),
               safeSearch      |-> Some(safeSearch),
               order           |-> Some(order),
               type            |-> Some("video"),
               q               |-> query,
               channelId       |-> channel_id,
               forMine         |-> mine,
               publishedAfter  |-> DateParam(after),
               publishedBefore |-> DateParam(before),
               maxResults      |-> MaxResults(PageCap, limit) ])

\* the params dict of search_videos
SearchParams(query, channel_id, after, before, mine, order, safeSearch, parts, limit) ==
    [ part            |-> Some(parts),
      safeSearch      |-> Some(safeSearch),
      order           |-> Some(order),
      type            |-> Some("video"),
      q               |-> query,
      channelId       |-> channel_id,
      forMine         |-> mine,
      publishedAfter  |-> DateParam(after),
      publishedBefore |-> DateParam(before),
      maxResults      |-> MaxResults(PageCap, limit) ]

search_videos(query, channel_id, after, before, mine, order, safeSearch, parts, limit) ==
    /\ pc = "idle"
    /\ call' = [op |-> "search_videos", query |-> query, channel_id |-> channel_id,
                after |-> after, before |-> before, mine |-> mine, limit |-> limit]
    /\ LET params == SearchParams(query, channel_id, after, before, mine,
                                  order, safeSearch, parts, limit)
       IN /\ queries' = Append(queries, Paginated("/search", params, limit))
          /\ pag' = [qi |-> Len(queries) + 1, count |-> 0, off |-> 0]
    /\ pc' = "paging"
    /\ UNCHANGED <<chunks, yielded, fetches, remote, error, entity>>

get_playlist_videos(playlist_id, parts, limit) ==
    /\ pc = "idle"
    /\ call' = [op |-> "get_playlist_videos", playlist_id |-> playlist_id, limit |-> limit]
    /\ LET params == [ part       |-> Some(parts),
                       playlistId |-> Some(playlist_id),
                       maxResults |-> MaxResults(PageCap, limit) ]
       IN /\ queries' = Append(queries, Paginated("/playlistItems", params, limit))
          /\ pag' = [qi |-> Len(queries) + 1, count |-> 0, off |-> 0]
    /\ pc' = "paging"
    /\ UNCHANGED <<chunks, yielded, fetches, remote, error, entity>>

comments(video_id, query, parts, order, limit) ==
    /\ pc = "idle"
    /\ call' = [op |-> "comments", video_id |-> video_id, query |-> query, limit |-> limit]
    /\ LET params == [ part         |-> Some(parts),
                       commentOrder |-> Some(order),
                       searchTerms  |-> query,
                       videoId      |-> Some(video_id),
                       maxResults   |-> MaxResults(CommentPageCap, limit) ]
       IN /\ queries' = Append(queries, Paginated("/commentThreads", params, limit))
          /\ pag' = [qi |-> Len(queries) + 1, count |-> 0, off |-> 0]
    /\ pc' = "paging"
    /\ UNCHANGED <<chunks, yielded, fetches, remote, error, entity>>

----------------------------------------------------------------------------
(* Part, and the raw items *)

Parts == {"ID", "DETAILS", "SNIPPET", "STATUS", "STATISTICS", "REPLIES",
          "LIVESTREAM_DETAILS", "TOPIC_DETAILS", "RECORDING_DETAILS", "LOCALIZATIONS"}

\* Part.X.value
PartValue(p) ==
    CASE p = "ID" -> "id"
      [] p = "DETAILS" -> "contentDetails"
      [] p = "SNIPPET" -> "snippet"
      [] p = "STATUS" -> "status"
      [] p = "STATISTICS" -> "statistics"
      [] p = "REPLIES" -> "replies"
      [] p = "LIVESTREAM_DETAILS" -> "liveStreamingDetails"
      [] p = "TOPIC_DETAILS" -> "topicDetails"
      [] p = "RECORDING_DETAILS" -> "topicDetails"
      [] p = "LOCALIZATIONS" -> "topicDetails"

\* dict.get(key)
Get(d, k) == IF k \in DOMAIN d THEN Some(d[k]) ELSE None

\* the truth value of dict | None, as in "if section := source.get('section')"
Truthy(o) == o # None /\ DOMAIN Val(o) # {}

EmptyDict == <<>>

Chars(n) == IF n < 10 THEN <<ToString(n)>> ELSE Pad2(n)

\* yt_date: '%Y-%m-%dT%H:%M:%S.%fZ', else '%Y-%m-%dT%H:%M:%SZ'
yt_date(str) ==
    LET head == /\ Len(str) >= 20
                /\ IsDigits(str, 1, 4) /\ str[5] = "-" /\ IsDigits(str, 6, 7) /\ str[8] = "-"
                /\ IsDigits(str, 9, 10) /\ str[11] = "T" /\ IsDigits(str, 12, 13)
                /\ str[14] = ":" /\ IsDigits(str, 15, 16) /\ str[17] = ":"
                /\ IsDigits(str, 18, 19)
        frac == /\ head /\ str[20] = "." /\ Len(str) \in 22..27
                /\ IsDigits(str, 21, Len(str) - 1) /\ str[Len(str)] = "Z"
        bare == head /\ Len(str) = 20 /\ str[20] = "Z"
        us   == IF frac
                THEN Num(SubSeq(str, 21, Len(str) - 1) \o <<"0", "0", "0", "0", "0">>, 1, 6)
                ELSE 0
    IN IF frac \/ bare
       THEN Some([year |-> Num(str, 1, 4), month |-> Num(str, 6, 7), day |-> Num(str, 9, 10),
                  hour |-> Num(str, 12, 13), minute |-> Num(str, 15, 16),
                  second |-> Num(str, 18, 19), microsecond |-> us, tz |-> None])
       ELSE None

----------------------------------------------------------------------------
(* ISO8601_PERIOD and Video.__init__ *)

At(str, i, c) == i <= Len(str) /\ str[i] = c

\* where a run of lo..hi digits that starts at i can end (hi = 0: no upper limit)
DigitRuns(str, i, lo, hi) ==
    {j \in (i + lo)..(Len(str) + 1) :
        /\ hi = 0 \/ j - i <= hi
        /\ \A k \in i..(j - 1) : str[k] \in Digits}

\* (?:(\d{1,2})c)? at i: the group and the position after it
OptField(str, i, c) ==
    {<<None, i>>}
    \cup {<<Some(SubSeq(str, i, j - 1)), j + 1>> :
            j \in {e \in DigitRuns(str, i, 1, 2) : At(str, e, c)}}

\* every way P(\d+)?T(?:(\d{1,2})H)?(?:(\d{1,2})M)?(\d{1,2})S matches a prefix of str
PeriodMatches(str) ==
    IF ~At(str, 1, "P") THEN {}
    ELSE UNION {
        UNION {
            UNION {
                { [groups |-> <<d[1], h[1], m[1], Some(SubSeq(str, m[2], e - 1))>>,
                   end |-> e + 1] :
                    e \in {x \in DigitRuns(str, m[2], 1, 2) : At(str, x, "S")} }
                : m \in OptField(str, h[2], "M") }
            : h \in OptField(str, d[2] + 1, "H") }
        : d \in {x \in {<<None, 2>>}
                    \cup {<<Some(SubSeq(str, 2, j - 1)), j>> : j \in DigitRuns(str, 2, 1, 0)} :
                    At(str, x[2], "T")} }

GroupLen(g) == IF g = None THEN 0 ELSE Len(Val(g))

\* the backtracking order: an optional group is tried present first, digits greedily
Prefers(a, b) ==
    \E i \in 1..5 :
        /\ \A j \in 1..(i - 1) : GroupLen(a.groups[j]) = GroupLen(b.groups[j])
        /\ i = 5 \/ GroupLen(a.groups[i]) > GroupLen(b.groups[i])

\* ISO8601_PERIOD.match(str): the match at the start of str, None if there is none
Match(str) ==
    LET ms == PeriodMatches(str)
    IN IF ms = {} THEN None
       ELSE Some(CHOOSE m \in ms : \A o \in ms : Prefers(m, o))

\* int(g) if g else 0
GroupInt(g) == IF g = None THEN 0 ELSE IntOf(Val(g))

\* days * 24 * 60 * 60 + hours * 60 * 60 + minutes * 60 + seconds
DurationOf(m) ==
    GroupInt(m.groups[1]) * 24 * 60 * 60 + GroupInt(m.groups[2]) * 60 * 60
    + GroupInt(m.groups[3]) * 60 + GroupInt(m.groups[4])

Built(attrs) == [error |-> "none", attrs |-> attrs]

Raised(e) == [error |-> e, attrs |-> EmptyDict]

\* the counters read one after another: attribute = int(section[key]); a KeyError at
\* the first key that is missing
RECURSIVE ReadCounters(_, _, _)
ReadCounters(section, fields, r) ==
    IF fields = <<>> \/ r.error # "none" THEN r
    ELSE LET key == Head(fields)[1]
             attr == Head(fields)[2]
         IN IF key \notin DOMAIN section THEN Raised("KeyError")
            ELSE ReadCounters(section, Tail(fields),
                              Built([x \in {attr} |-> IntOf(section[key])] @@ r.attrs))

VideoCounters ==
    << <<"viewCount", "view_count">>, <<"likeCount", "like_count">>,
       <<"commentCount", "comment_count">>, <<"favouriteCount", "favourite_count">> >>

\* if contentDetails := source.get('contentDetails'): ...
VideoContentDetails(source, r) ==
    LET contentDetails == Get(source, "contentDetails")
    IN IF r.error # "none" \/ ~Truthy(contentDetails) THEN r
       ELSE IF "duration" \notin DOMAIN Val(contentDetails) THEN Raised("KeyError")
       ELSE LET m == Match(Val(contentDetails).duration)
            IN IF m # None
               THEN Built([duration |-> DurationOf(Val(m))] @@ r.attrs)
               ELSE Raised("ValueError")

\* if statistics := source.get('statistics'): ...
VideoStatistics(source, r) ==
    LET statistics == Get(source, "statistics")
    IN IF r.error # "none" \/ ~Truthy(statistics) THEN r
       ELSE ReadCounters(Val(statistics), VideoCounters, r)

\* if topicDetails := source.get('topicDetails'): ...
VideoTopicDetails(source, r) ==
    LET topicDetails == Get(source, "topicDetails")
    IN IF r.error # "none" \/ ~Truthy(topicDetails) THEN r
       ELSE Built([topic_categories |-> Get(Val(topicDetails), "topicCategories")] @@ r.attrs)

\* if recordingDetails := source.get('recordingDetails'): ...
VideoRecordingDetails(source, r) ==
    LET recordingDetails == Get(source, "recordingDetails")
    IN IF r.error # "none" \/ ~Truthy(recordingDetails) THEN r
       ELSE Built([recording_date |-> Get(Val(recordingDetails), "recordingDate")] @@ r.attrs)

\* if localizations := source.get('localizations'): ...
VideoLocalizations(source, r) ==
    LET localizations == Get(source, "localizations")
    IN IF r.error # "none" \/ ~Truthy(localizations) THEN r
       ELSE Built([localizations |-> Val(localizations)] @@ r.attrs)

\* Video.__init__: the instance's __dict__, or the exception raised
VideoInit(source) ==
    VideoLocalizations(source,
        VideoRecordingDetails(source,
            VideoTopicDetails(source,
                VideoStatistics(source,
                    VideoContentDetails(source,
                        Built([_youtube |-> "yt", id |-> source.id]))))))

----------------------------------------------------------------------------
(* Channel.__init__ *)

ChannelCounters ==
    << <<"viewCount", "view_count">>, <<"subscriberCount", "subscriber_count">>,
       <<"videoCount", "video_count">> >>

\* if snippet := source.get('snippet'): ...
ChannelSnippet(source, r) ==
    LET snippet == Get(source, "snippet")
    IN IF r.error # "none" \/ ~Truthy(snippet) THEN r
       ELSE IF {"title", "description", "publishedAt"} \ DOMAIN Val(snippet) # {}
       THEN Raised("KeyError")
       ELSE IF yt_date(Val(snippet).publishedAt) = None THEN Raised("ValueError")
       ELSE LET sn == Val(snippet)
                thumbs == IF "thumbnails" \in DOMAIN sn THEN sn.thumbnails ELSE EmptyDict
                deflt  == IF "default" \in DOMAIN thumbs THEN thumbs.default ELSE EmptyDict
            IN Built([ display_name      |-> sn.title,
                       description       |-> sn.description,
                       created_at        |-> Val(yt_date(sn.publishedAt)),
                       profile_image_url |-> Get(deflt, "url"),
                       at_username       |-> Get(sn, "customUrl") ] @@ r.attrs)

\* if details := source.get('contentDetails'): ...
ChannelDetails(source, r) ==
    LET details == Get(source, "contentDetails")
    IN IF r.error # "none" \/ ~Truthy(details) THEN r
       ELSE IF "relatedPlaylists" \notin DOMAIN Val(details) THEN Raised("KeyError")
       ELSE IF "uploads" \notin DOMAIN Val(details).relatedPlaylists THEN Raised("KeyError")
       ELSE Built([uploads_playlist |->
                     [_youtube |-> "yt", id |-> Val(details).relatedPlaylists.uploads]]
                  @@ r.attrs)

\* if stats := source.get('statistics'): ...
ChannelStatistics(source, r) ==
    LET stats == Get(source, "statistics")
    IN IF r.error # "none" \/ ~Truthy(stats) THEN r
       ELSE ReadCounters(Val(stats), ChannelCounters, r)

\* Channel.__init__: the instance's __dict__, or the exception raised
ChannelInit(source) ==
    ChannelStatistics(source,
        ChannelDetails(source,
            ChannelSnippet(source, Built([_youtube |-> "yt", id |-> source.id]))))

----------------------------------------------------------------------------
(* Raw items: what the remote returns, and the malformed shapes the mappers may meet *)

PublishedAt ==
    <<"2", "0", "1", "9", "-", "0", "7", "-", "0", "4", "T",
      "1", "0", ":", "0", "5", ":", "0", "9", "Z">>

\* the channel resource at revision v, with the sections the requested parts name
RemoteChannelItem(id, parts, v) ==
    LET tags == {PartValue(p) : p \in parts}
    IN (IF "snippet" \in tags
        THEN [snippet |-> [ title       |-> "name" \o ToString(v),
                            description |-> "about" \o ToString(v),
                            publishedAt |-> PublishedAt,
                            customUrl   |-> "@handle" \o ToString(v),
                            thumbnails  |-> [default |-> [url |-> "img" \o ToString(v)]] ]]
        ELSE EmptyDict)
       @@ (IF "contentDetails" \in tags
           THEN [contentDetails |-> [relatedPlaylists |-> [uploads |-> "UU" \o id]]]
           ELSE EmptyDict)
       @@ (IF "statistics" \in tags
           THEN [statistics |-> [ viewCount       |-> Chars(10 * v),
                                  subscriberCount |-> Chars(v),
                                  videoCount      |-> Chars(3 * v) ]]
           ELSE EmptyDict)
       @@ [id |-> id]

DayParts == {<<>>, <<"1">>}
DaySeps == {<<>>, <<"D">>}
HourParts == {<<>>, <<"0", "H">>, <<"1", "H">>, <<"1", "2", "3", "H">>}
MinuteParts == {<<>>, <<"0", "M">>, <<"2", "M">>}
SecondParts == {<<>>, <<"0", "S">>, <<"3", "S">>}
Tails == {<<>>, <<"x", "y", "z">>}
Heads == {<<"P">>, <<"x", "P">>}

\* the duration strings tried: periods of the grammar, and strings that are not
DurationStrings ==
    {p \o d \o ds \o <<"T">> \o h \o m \o sec \o t :
        p \in Heads, d \in DayParts, ds \in DaySeps, h \in HourParts,
        m \in MinuteParts, sec \in SecondParts, t \in Tails}

Counter == <<"4", "2">>

VideoCounterKeys == {"viewCount", "likeCount", "commentCount", "favouriteCount"}

ChannelCounterKeys == {"viewCount", "subscriberCount", "videoCount"}

Sections(name, values) == {EmptyDict} \cup {[x \in {name} |-> v] : v \in values}

StatSections(keys) == Sections("statistics", {[k \in ks |-> Counter] : ks \in SUBSET keys})

VideoSources ==
    {cd @@ st @@ [id |-> "v1"] :
        cd \in Sections("contentDetails", {[duration |-> d] : d \in DurationStrings}),
        st \in Sections("statistics", {[k \in VideoCounterKeys |-> Counter]})}
    \cup {cd @@ st @@ [id |-> "v1"] :
            cd \in Sections("contentDetails", {EmptyDict, [duration |-> <<"P", "T", "9", "S">>]}),
            st \in StatSections(VideoCounterKeys)}

ChannelSources ==
    {sn @@ st @@ [id |-> Id(1)] :
        sn \in Sections("snippet",
                  {EmptyDict,
                   [description |-> "about", publishedAt |-> PublishedAt],
                   [title |-> "name", description |-> "about", publishedAt |-> PublishedAt]}),
        st \in StatSections(ChannelCounterKeys)}

----------------------------------------------------------------------------
(* The mappers applied to one raw item *)

\* Video(source, yt)
map_video(source) ==
    /\ pc = "idle"
    /\ call' = [op |-> "Video", source |-> source]
    /\ LET r == VideoInit(source)
       IN /\ error' = r.error
          /\ entity' = r.attrs
          /\ pc' = IF r.error = "none" THEN "mapped" ELSE "raised"
    /\ UNCHANGED <<queries, pag, chunks, yielded, fetches, remote>>

\* Channel(source, yt)
map_channel(source) ==
    /\ pc = "idle"
    /\ call' = [op |-> "Channel", source |-> source]
    /\ LET r == ChannelInit(source)
       IN /\ error' = r.error
          /\ entity' = r.attrs
          /\ pc' = IF r.error = "none" THEN "mapped" ELSE "raised"
    /\ UNCHANGED <<queries, pag, chunks, yielded, fetches, remote>>

----------------------------------------------------------------------------
(* YouTubeData.channel and Channel.update *)

\* the parts argument that YouTubeData.channel passes on when the caller names none
DefaultChannelParts == {"SNIPPET"}

\* (await self._channels_list(channel_ids=[channel_id], parts=parts))[0]: the query
\* made, and the Channel built from the first item or the IndexError
ChannelQuery(channel_id, parts) ==
    Paginated("/channels",
              [id |-> Some(CommaJoin(<<channel_id>>))] @@ ChannelsParams(parts, None), None)

ChannelFetch(channel_id, parts) ==
    IF channel_id \in remote.missing THEN Raised("IndexError")
    ELSE ChannelInit(RemoteChannelItem(channel_id, parts, remote.version))

\* yt.channel(channel_id, parts)
channel(channel_id, parts) ==
    /\ pc = "idle"
    /\ call' = [op |-> "channel", channel_ids |-> Some(<<channel_id>>), mine |-> FALSE,
                parts |-> parts, limit |-> None]
    /\ LET r == ChannelFetch(channel_id, parts)
       IN /\ error' = r.error
          /\ entity' = r.attrs
          /\ yielded' = IF r.error = "none" THEN Append(yielded, channel_id) ELSE yielded
          /\ pc' = IF r.error = "none" THEN "mapped" ELSE "raised"
    /\ queries' = Append(queries, ChannelQuery(channel_id, parts))
    /\ fetches' = fetches + 1
    /\ UNCHANGED <<pag, chunks, remote>>

\* the channel's data changes at the remote while the caller holds a Channel
RemoteChange ==
    /\ pc = "mapped"
    /\ call.op = "channel"
    /\ remote.version < MaxVersion
    /\ remote' = [remote EXCEPT !.version = remote.version + 1]
    /\ UNCHANGED <<pc, call, queries, pag, chunks, yielded, fetches, error, entity>>

\* Channel.update: new = await self._youtube.channel(self.id);
\* self.__dict__.update(new.__dict__)
update ==
    /\ pc = "mapped"
    /\ call.op = "channel"
    /\ LET r == ChannelFetch(entity.id, DefaultChannelParts)
       IN /\ error' = r.error
          /\ entity' = IF r.error = "none" THEN r.attrs @@ entity ELSE entity
          /\ yielded' = IF r.error = "none" THEN Append(yielded, entity.id) ELSE yielded
          /\ pc' = IF r.error = "none" THEN "updated" ELSE "raised"
    /\ queries' = Append(queries, ChannelQuery(entity.id, DefaultChannelParts))
    /\ fetches' = fetches + 1
    /\ UNCHANGED <<call, pag, chunks, remote>>

----------------------------------------------------------------------------
(* YouTubeData.video *)

\* the tags a request's part parameter carries: each selector's value
SentTags(parts) == {PartValue(p) : p \in parts}

\* the video resource, with the sections the tags sent name
RemoteVideoItem(id, parts) ==
    LET tags == SentTags(parts)
    IN (IF "topicDetails" \in tags
        THEN [topicDetails |-> [topicCategories |-> <<"wiki/Music">>]]
        ELSE EmptyDict)
       @@ (IF "recordingDetails" \in tags
           THEN [recordingDetails |-> [recordingDate |-> PublishedAt]]
           ELSE EmptyDict)
       @@ (IF "localizations" \in tags
           THEN [localizations |-> [en |-> [title |-> "name"]]]
           ELSE EmptyDict)
       @@ [id |-> id]

\* the part selectors asked of YouTubeData.video
VideoPartSets == SUBSET {"ID", "TOPIC_DETAILS", "RECORDING_DETAILS", "LOCALIZATIONS"} \ {{}}

\* (await self.videos([id], parts))[0]: the Video built from the first item, or the
\* IndexError
VideoFetch(id, parts) ==
    IF id \in remote.missing THEN Raised("IndexError")
    ELSE VideoInit(RemoteVideoItem(id, parts))

\* yt.video(id, parts)
video(id, parts) ==
    /\ pc = "idle"
    /\ call' = [op |-> "video", video_ids |-> <<id>>, parts |-> parts, limit |-> None]
    /\ LET r == VideoFetch(id, parts)
       IN /\ error' = r.error
          /\ entity' = r.attrs
          /\ yielded' = IF r.error = "none" THEN Append(yielded, id) ELSE yielded
          /\ pc' = IF r.error = "none" THEN "mapped" ELSE "raised"
    /\ queries' = Append(queries,
            Paginated("/videos", [part |-> Some(parts), id |-> Some(CommaJoin(<<id>>))], None))
    /\ fetches' = fetches + 1
    /\ UNCHANGED <<pag, chunks, remote>>

----------------------------------------------------------------------------

Init ==
    /\ pc = "idle"
    /\ call = [op |-> "none"]
    /\ queries = <<>>
    /\ pag = NoPag
    /\ chunks = <<>>
    /\ yielded = <<>>
    /\ fetches = 0
    /\ remote \in Remotes
    /\ error = "none"
    /\ entity = EmptyDict

Next ==
    \/ \E ids \in {None} \cup {Some(l) : l \in IdLists}, mine \in BOOLEAN,
          limit \in Limits, order \in SetOrders :
            channels_list(ids, mine, {"SNIPPET"}, limit, order)
    \/ page_chunks
    \/ \E ids \in IdLists : videos(ids, {"ID", "SNIPPET"})
    \/ \E query \in {None, Some("cats")}, channel_id \in {None, Some(Id(1))},
          range \in DateRanges, mine \in {None, Some(TRUE)}, limit \in Limits :
            search_videos(query, channel_id, range[1], range[2], mine,
                          "RELEVANCE", "MODERATE", {"SNIPPET"}, limit)
    \/ \E limit \in Limits : get_playlist_videos("PL1", {"SNIPPET"}, limit)
    \/ \E query \in {None, Some("cats")}, limit \in Limits \cup {Some(CommentPageCap + MaxLimit)} :
            comments("v1", query, {"SNIPPET", "REPLIES"}, "TIME", limit)
    \/ FetchPage
    \/ \E source \in VideoSources : map_video(source)
    \/ \E source \in ChannelSources : map_channel(source)
    \/ \E id \in {Id(1), Id(2)}, parts \in SUBSET {"SNIPPET", "DETAILS", "STATISTICS"} :
            parts # {} /\ channel(id, parts)
    \/ RemoteChange
    \/ update
    \/ \E id \in {Id(1), Id(2)}, parts \in VideoPartSets : video(id, parts)

Spec == Init /\ [][Next]_vars

----------------------------------------------------------------------------
(* Properties *)

Queries == Range(queries)

PaginatedOps == {"_channels_list", "search_videos", "get_playlist_videos", "comments"}

ChunkedLookup == call.op = "_channels_list" /\ BoolOfList(call.channel_ids)

\* the items the remote holds for the call as a whole
Available ==
    IF ChunkedLookup
    THEN Cardinality(Range(Val(call.channel_ids)) \ remote.missing)
    ELSE IF call.op = "_channels_list" THEN Len(remote.mine)
    ELSE remote.total

\* C1: a paginated query with item limit L never yields more than L entities, and
\* has yielded min(L, total available) of them when it ends.
C1_YieldsAtMostLimit ==
    (call.op \in PaginatedOps /\ call.limit # None /\ error = "none") =>
        /\ Len(yielded) <= Val(call.limit)
        /\ pc = "done" => Len(yielded) = Min(Val(call.limit), Available)

BothGiven == call.mine /\ call.channel_ids # None /\ Val(call.channel_ids) # <<>>

NeitherGiven == ~call.mine /\ (call.channel_ids = None \/ Val(call.channel_ids) = <<>>)

\* C2: a channel lookup given both an ID list and mine=True, or neither, raises a
\* usage error at the call, and the transport is never invoked: no paginated query
\* is created and no request is made.
C2_UsageErrorBeforeTransport ==
    (call.op = "_channels_list" /\ (BothGiven \/ NeitherGiven)) =>
        /\ pc = "raised"
        /\ error = "ValueError"
        /\ queries = <<>>
        /\ fetches = 0
        /\ yielded = <<>>

\* C2, reached: a lookup given mine=True and more than 50 IDs has raised
C2_Witness_BothRaised ==
    /\ call.op = "_channels_list"
    /\ BothGiven
    /\ Len(Val(call.channel_ids)) > ChunkSize
    /\ pc = "raised"

IdsOf(q) == SplitComma(Val(q.params.id))

Count(seq, v) == Cardinality({i \in DOMAIN seq : seq[i] = v})

CeilDiv(a, b) == (a + b - 1) \div b

\* a batch lookup the claim C3 is about: more than 50 entries, some repeated, no
\* limit, every ID resolving
DupBatch ==
    /\ ChunkedLookup
    /\ ~call.mine
    /\ call.limit = None
    /\ Len(Val(call.channel_ids)) > ChunkSize
    /\ Cardinality(Range(Val(call.channel_ids))) < Len(Val(call.channel_ids))
    /\ Range(Val(call.channel_ids)) \cap remote.missing = {}

\* C3: the batch channel lookup of a list with duplicates and more than 50 entries
\* issues ceil(unique_count / 50) paginated queries, each with at most 50 IDs, no ID
\* in two queries, and yields unique_count entities, each ID once.
C3_BatchLookupDeduplicated ==
    DupBatch =>
        LET ids == Val(call.channel_ids)
            unique == Cardinality(Range(ids))
        IN /\ \A i \in DOMAIN queries :
                /\ queries[i].path = "/channels"
                /\ Len(IdsOf(queries[i])) <= ChunkSize
                /\ \A j \in DOMAIN queries :
                       i # j => Range(IdsOf(queries[i])) \cap Range(IdsOf(queries[j])) = {}
                /\ \A c \in Range(IdsOf(queries[i])) : Count(IdsOf(queries[i]), c) = 1
           /\ Len(queries) <= CeilDiv(unique, ChunkSize)
           /\ pc = "done" =>
                /\ Len(queries) = CeilDiv(unique, ChunkSize)
                /\ Len(yielded) = unique
                /\ \A c \in Range(ids) : Count(yielded, c) = 1

\* C3, reached: a list with duplicates and more than 50 distinct IDs, fully consumed
C3_Witness_TwoChunksDone ==
    /\ DupBatch
    /\ pc = "done"
    /\ Cardinality(Range(Val(call.channel_ids))) > ChunkSize
    /\ Len(queries) = 2

\* C4: no request of YouTubeData.videos carries more than 50 IDs in its 'id'
\* parameter, and none carries an ID twice.
C4_VideosRespectIdCeiling ==
    \A q \in Queries :
        q.path = "/videos" =>
            /\ Len(IdsOf(q)) <= ChunkSize
            /\ \A c \in Range(IdsOf(q)) : Count(IdsOf(q), c) = 1

\* YYYY-MM-DDTHH:MM:SSZ
IsUtcSecondsForm(str) ==
    /\ Len(str) = 20
    /\ IsDigits(str, 1, 4) /\ str[5] = "-" /\ IsDigits(str, 6, 7) /\ str[8] = "-"
    /\ IsDigits(str, 9, 10) /\ str[11] = "T" /\ IsDigits(str, 12, 13) /\ str[14] = ":"
    /\ IsDigits(str, 15, 16) /\ str[17] = ":" /\ IsDigits(str, 18, 19) /\ str[20] = "Z"

\* seconds since the start of the month
SecondOfMonth(day, hour, minute, second) == ((day * 24 + hour) * 60 + minute) * 60 + second

\* the instant a timestamp denotes, in UTC (a naive one is read as UTC)
UtcInstant(dt) ==
    <<dt.year, dt.month,
      SecondOfMonth(dt.day, dt.hour, dt.minute, dt.second)
        - 60 * (IF dt.tz = None THEN 0 ELSE Val(dt.tz))>>

ParamInstant(str) ==
    <<Num(str, 1, 4), Num(str, 6, 7),
      SecondOfMonth(Num(str, 9, 10), Num(str, 12, 13), Num(str, 15, 16), Num(str, 18, 19))>>

DateParamOk(date, param) ==
    date # None =>
        /\ param # None
        /\ IsUtcSecondsForm(Val(param))
        /\ ParamInstant(Val(param)) = UtcInstant(Val(date))

\* C5: the publishedAfter / publishedBefore parameter of a search has the form
\* YYYY-MM-DDTHH:MM:SSZ and denotes the instant of the timestamp given, in UTC.
C5_DateFiltersUtcSeconds ==
    \A q \in Queries :
        q.path = "/search" =>
            /\ DateParamOk(call.after, q.params.publishedAfter)
            /\ DateParamOk(call.before, q.params.publishedBefore)

\* C8 as stated: no parameter mapping handed to the paginator has a key whose
\* value is None.
C8_NoNoneValuedKey ==
    \A q \in Queries :
        q.path \in {"/search", "/commentThreads", "/playlistItems", "/channels"} =>
            \A k \in DOMAIN q.params : q.params[k] # None

BuilderKeys(path) ==
    IF path = "/search"
    THEN {"part", "safeSearch", "order", "type", "q", "channelId", "forMine",
          "publishedAfter", "publishedBefore", "maxResults"}
    ELSE IF path = "/commentThreads"
    THEN {"part", "commentOrder", "searchTerms", "videoId", "maxResults"}
    ELSE IF path = "/playlistItems" THEN {"part", "playlistId", "maxResults"}
    ELSE {"part", "maxResults"} \cup (IF call.mine THEN {"mine"} ELSE {"id"})

\* C8, amended: every builder hands the paginator its full key set; a filter left
\* at None stays in the mapping with the value None, a supplied one carries its value.
C8_NoneFiltersKept ==
    \A q \in Queries :
        q.path \in {"/search", "/commentThreads", "/playlistItems", "/channels"} =>
            /\ DOMAIN q.params = BuilderKeys(q.path)
            /\ (q.params.maxResults = None) <=> (call.limit = None)
            /\ q.path = "/search" =>
                /\ q.params.q = call.query
                /\ q.params.channelId = call.channel_id
                /\ q.params.forMine = call.mine
                /\ (q.params.publishedAfter = None) <=> (call.after = None)
                /\ (q.params.publishedBefore = None) <=> (call.before = None)
            /\ q.path = "/commentThreads" => q.params.searchTerms = call.query

\* C8, reached: a search with every optional filter left at None has built its query
C8_Witness_SearchAllAbsent ==
    /\ call.op = "search_videos"
    /\ call.query = None /\ call.channel_id = None /\ call.mine = None
    /\ call.after = None /\ call.before = None /\ call.limit = None
    /\ Len(queries) = 1
    /\ queries[1].params.q = None
    /\ queries[1].params.maxResults = None

DurationGiven ==
    /\ call.op = "Video"
    /\ "contentDetails" \in DOMAIN call.source
    /\ "duration" \in DOMAIN call.source.contentDetails

StatisticsSound(keys) ==
    "statistics" \in DOMAIN call.source => keys \subseteq DOMAIN call.source.statistics

\* the number a field such as 12H carries, 0 when the field is absent
FieldInt(f) == IF f = <<>> THEN 0 ELSE IntOf(SubSeq(f, 1, Len(f) - 1))

\* C6: a Video whose duration string is a period of the grammar (optional day count,
\* optional hours, optional minutes, seconds) is built, with duration
\* days*86400 + hours*3600 + minutes*60 + seconds; "P1DT0H0M0S" gives 86400.
C6_PeriodsGiveSeconds ==
    (DurationGiven /\ StatisticsSound(VideoCounterKeys)) =>
        \A d \in DayParts, h \in {x \in HourParts : Len(x) <= 3},
           m \in MinuteParts, sec \in SecondParts \ {<<>>} :
            \A ds \in (IF d = <<>> THEN {<<>>} ELSE DaySeps) :
                call.source.contentDetails.duration
                    = <<"P">> \o d \o ds \o <<"T">> \o h \o m \o sec
                => /\ pc = "mapped"
                   /\ "duration" \in DOMAIN entity
                   /\ entity.duration = IntOf(d) * 86400 + FieldInt(h) * 3600
                                        + FieldInt(m) * 60 + FieldInt(sec)

\* a matcher that accepts the period only when it is the whole string
FullMatch(str) ==
    LET ms == {m \in PeriodMatches(str) : m.end = Len(str) + 1}
    IN IF ms = {} THEN None
       ELSE Some(CHOOSE m \in ms : \A o \in ms : Prefers(m, o))


\* C7: a duration string that is not, as a whole, a period of the grammar makes the
\* construction of the Video fail; no Video with a duration comes out of it.
C7_OtherStringsRaise ==
    (DurationGiven /\ FullMatch(call.source.contentDetails.duration) = None) =>
        /\ pc = "raised"
        /\ error = "ValueError"
        /\ "duration" \notin DOMAIN entity

CounterAttrs == {"view_count", "like_count", "comment_count", "favourite_count",
                 "subscriber_count", "video_count"}

RequiredCounters == IF call.op = "Video" THEN VideoCounterKeys ELSE ChannelCounterKeys

\* C9: with a 'statistics' section present (empty or not) and a required counter
\* missing from it, the construction of a Video or Channel fails; with the section
\* absent it assigns no counter field.
C9_MissingCounterRaises ==
    call.op \in {"Video", "Channel"} =>
        /\ ("statistics" \in DOMAIN call.source
            /\ RequiredCounters \ DOMAIN call.source.statistics # {})
           => (pc = "raised" /\ error # "none" /\ entity = EmptyDict)
        /\ "statistics" \notin DOMAIN call.source
           => /\ DOMAIN entity \cap CounterAttrs = {}
              /\ DOMAIN call.source = {"id"} => (pc = "mapped" /\ error = "none")

AllChannelParts == {"SNIPPET", "DETAILS", "STATISTICS"}

\* the Channel a fetch of every part would build from the remote as it is now
FreshChannel ==
    ChannelInit(RemoteChannelItem(Val(call.channel_ids)[1], AllChannelParts,
                                  remote.version)).attrs

\* C10: after update() every populated field of the Channel holds the remote's
\* value at the re-fetch, and the id is the one it had.
C10_UpdateRefreshesAllFields ==
    (call.op = "channel" /\ pc = "updated") =>
        /\ entity.id = Val(call.channel_ids)[1]
        /\ \A f \in DOMAIN entity : entity[f] = FreshChannel[f]

\* C11: any two distinct Part selectors are sent as different tags, and a request
\* for RECORDING_DETAILS or LOCALIZATIONS carries 'recordingDetails' or
\* 'localizations', never the tag of another section.
C11_PartTagsDistinct ==
    \A q \in Queries :
        \A p \in Val(q.params.part) :
            /\ \A o \in Parts \ {p} : PartValue(o) # PartValue(p)
            /\ p = "RECORDING_DETAILS" => "recordingDetails" \in SentTags(Val(q.params.part))
            /\ p = "LOCALIZATIONS" => "localizations" \in SentTags(Val(q.params.part))

====
